---- MODULE Spec2Model ----
(***************************************************************************)
(* State-machine model of ksp-klient.py, the command-line client of the    *)
(* KSP open-data API.                                                      *)
(*                                                                         *)
(* One run of the program is one behaviour: Init is the process right      *)
(* after argparse returned, the actions are the module top level           *)
(* (construction of KSPApiService, dispatch) and the five handlers; the    *)
(* loop of handleRun is split at its blocking calls.  The remote server,   *)
(* the credential file, the clock and the solver subprocess are the        *)
(* environment: their answers are drawn from small sets.                   *)
(*                                                                         *)
(* Texts are ASCII transliterations of the Czech literals of the source.   *)
(* Byte strings and str are both modelled as strings.                      *)
(***************************************************************************)
EXTENDS Integers, Sequences, FiniteSets, TLC

(***************************************************************************)
(* Bounds of the model                                                     *)
(***************************************************************************)
\* largest number of subtasks a status response lists
MaxSubtasks == 3
\* largest number of whole days of remaining validity tried by formatTime
MaxDays == 5
\* largest number of seconds an expiry lies in the past
MaxPast == 3
\* clock ticks per second (the clock of the source has microseconds)
Resolution == 2
\* largest number of calls made on one KSPApiService object
MaxCalls == 1

(***************************************************************************)
(* Values of the environment                                               *)
(***************************************************************************)
None == "None"
\* marks a response without a content-type header
NoHeader == "<no content-type header>"

Tasks == {"32-Z4-1"}
ApiUrls == {None, "http://localhost:5000/api/"}
\* first line of the credential file, character by character
TokenLines == {<<"t", "k", "\n">>, <<" ", "t", " ", "k", " ", "\n">>}
FileContents == {"", "42"}
SolverOutputs == {"", "out"}
ContentTypes == {"application/json", "application/json; charset=utf-8",
                 "text/html", NoHeader}
ErrorStatusCodes == {403}
Whitespace == {" ", "\n", "\t"}

\* the model's clock reading, in ticks
Now == 1000 * Resolution

(***************************************************************************)
(* dict values: sets of <<key, value>> pairs, one pair per key             *)
(***************************************************************************)
EmptyDict == {}

Keys(d) == {p[1] : p \in d}

Get(d, k) == (CHOOSE p \in d : p[1] = k)[2]

\* faulty variant: the extra headers take the place of the client's headers
Merge_extraReplaces(a, b) == IF b = {} THEN a ELSE b

\* {**a, **b}
Merge(a, b) == b \cup {p \in a : p[1] \notin Keys(b)}

(***************************************************************************)
(* str.strip() on a sequence of characters, then the characters joined     *)
(***************************************************************************)
RECURSIVE lstrip(_)
lstrip(s) ==
    IF s # <<>> /\ Head(s) \in Whitespace THEN lstrip(Tail(s)) ELSE s

RECURSIVE rstrip(_)
rstrip(s) ==
    IF s # <<>> /\ s[Len(s)] \in Whitespace
    THEN rstrip(SubSeq(s, 1, Len(s) - 1))
    ELSE s

strip(s) == rstrip(lstrip(s))

RECURSIVE JoinWith(_, _)
JoinWith(sep, s) ==
    IF s = <<>> THEN ""
    ELSE IF Len(s) = 1 THEN s[1]
    ELSE s[1] \o sep \o JoinWith(sep, Tail(s))

(***************************************************************************)
(* APIOperation                                                            *)
(***************************************************************************)
APIOperation == {"LIST", "STATUS", "GET_TEST", "SUBMIT", "GENERATE"}

getURL(operation) ==
    CASE operation = "LIST" -> "tasks/list"
      [] operation = "STATUS" -> "tasks/status"
      [] operation = "GET_TEST" -> "tasks/input"
      [] operation = "SUBMIT" -> "tasks/submit"
      [] operation = "GENERATE" -> "tasks/generate"

getHTTPMethod(operation) ==
    IF operation \in {"LIST", "STATUS"} THEN "GET" ELSE "POST"

(***************************************************************************)
(* Responses of the server and outcomes of one HTTP exchange               *)
(*   valid: the body parses as JSON and holds the keys the client reads    *)
(***************************************************************************)
Resp(sc, ct, valid, em, subs, text, verdict) ==
    [status_code |-> sc, content_type |-> ct, valid |-> valid,
     errorMsg |-> em, subtasks |-> subs, text |-> text, verdict |-> verdict]

NoResponse == Resp(0, NoHeader, FALSE, "", <<>>, "", "")

\* a subtask record of a status response; input_valid_until is the clock
\* reading of the expiry in ticks together with the year of its ISO text
SubtaskRec(id, generated, year, t) ==
    [id |-> id, input_generated |-> generated,
     input_valid_until |-> [year |-> year, t |-> t]]

SubtaskKinds(id) ==
    {SubtaskRec(id, FALSE, 2026, Now),
     SubtaskRec(id, TRUE, 2026, Now + 90 * Resolution)}

StatusBodies ==
    UNION {{s \in [1..n -> UNION {SubtaskKinds(i) : i \in 1..n}] :
               \A i \in 1..n : s[i] \in SubtaskKinds(i)} : n \in 0..MaxSubtasks}

ErrorResponses ==
    {Resp(sc, ct, v, IF v THEN "X" ELSE "", <<>>, "raw body", "") :
        sc \in ErrorStatusCodes, ct \in ContentTypes, v \in BOOLEAN}

OkResponses(operation) ==
    CASE operation = "LIST" ->
            {Resp(200, "application/json", v, "", <<>>, "[tasks]", "") : v \in BOOLEAN}
      [] operation = "STATUS" ->
            {Resp(200, "application/json", TRUE, "", b, "{status}", "") : b \in StatusBodies}
            \cup {Resp(200, "application/json", FALSE, "", <<>>, "{}", "")}
      [] operation = "SUBMIT" ->
            {Resp(200, "application/json", v, "", <<>>, "{verdict}", "OK") : v \in BOOLEAN}
      [] OTHER ->
            {Resp(200, "text/plain", FALSE, "", <<>>, "input", "")}

Outcomes(operation) ==
    {[conn_error |-> TRUE, response |-> NoResponse]}
    \cup {[conn_error |-> FALSE, response |-> r] :
             r \in ErrorResponses \cup OkResponses(operation)}

(***************************************************************************)
(* KSPApiService                                                           *)
(***************************************************************************)
default_api_url == "https://ksp.mff.cuni.cz/api/"

default_token_path == "~/.config/ksp-api-token"

\* data={} of callApi: requests sends an empty body for an empty dict
DefaultData == ""

NoService ==
    [api_url |-> None, headers |-> EmptyDict, training_ground |-> FALSE,
     verbose |-> FALSE]

\* file: [state, line]; state is "absent", "readable" or "unreadable"
fileExists(file) ==
    IF file.state = "absent"
    THEN [result |-> "exit",
          printed |-> <<"Soubor " \o default_token_path \o " neexistuje">>]
    ELSE [result |-> "return", printed |-> <<>>]

KSPApiService_init(api_url, training_ground, verbose, file) ==
    LET e == fileExists(file)
        token == JoinWith("", strip(file.line))
    IN  IF e.result = "exit"
        THEN [result |-> "exit", printed |-> e.printed, self |-> NoService]
        ELSE IF file.state = "unreadable"
        THEN [result |-> "raise", printed |-> <<>>, self |-> NoService]
        ELSE [result |-> "return", printed |-> <<>>,
              self |-> [api_url |-> IF api_url # None THEN api_url
                                    ELSE default_api_url,
                        headers |-> {<<"Authorization", "Bearer " \o token>>},
                        training_ground |-> training_ground,
                        verbose |-> verbose]]

\* result: "return" (the response goes back to the caller), "exit"
\* (sys.exit(1)) or "raise" (an exception nobody catches)
callApi(self, operation, extra_headers, extra_params, data, outcome) ==
    LET headers == Merge(self.headers, extra_headers)
        url == self.api_url \o getURL(operation)
        http_method == getHTTPMethod(operation)
        request == [operation |-> operation, method |-> http_method,
                    url |-> url, headers |-> headers,
                    params |-> extra_params, data |-> data]
        log == IF self.verbose THEN <<"Posilam pozadavek na: " \o url>>
               ELSE <<>>
        response == outcome.response
        res(result, printed) ==
            [request |-> request, result |-> result,
             printed |-> log \o printed, response |-> response]
    IN  IF outcome.conn_error
        THEN res("exit", <<"Klient se nedokazal pripojit ke strankam KSP",
                           "Jsi pripojen k internetu?">>)
        ELSE IF response.status_code # 200
        THEN IF response.content_type = NoHeader
             THEN res("raise", <<>>)
             ELSE IF response.content_type = "application/json"
             THEN IF response.valid
                  THEN res("exit", <<"Stranka KSP neprijala tvuj pozadavek: "
                                     \o response.errorMsg>>)
                  ELSE res("raise", <<>>)
             ELSE IF self.verbose
                  \* print(response.text()): text is a str, the call raises
                  THEN res("raise", <<"Stranka KSP odpovedela chybou, ktera nema json odpoved!">>)
                  ELSE res("exit", <<"Stranka KSP odpovedela chybou, ktera nema json odpoved!">>)
        ELSE res("return", <<>>)

getList(self, outcome) ==
    callApi(self, "LIST", EmptyDict,
            IF self.training_ground THEN {<<"set", "cviciste">>} ELSE EmptyDict,
            DefaultData, outcome)

getStatus(self, task, outcome) ==
    callApi(self, "STATUS", EmptyDict, {<<"task", task>>}, DefaultData, outcome)

getTest(self, task, subtask, generate, outcome) ==
    callApi(self, "GET_TEST", EmptyDict,
            {<<"task", task>>, <<"subtask", ToString(subtask)>>,
             <<"generate", IF generate THEN "true" ELSE "false">>},
            DefaultData, outcome)

\* content is encoded and then not passed on
submit(self, task, subtask, content, outcome) ==
    callApi(self, "SUBMIT", {<<"Content-Type", "text/plain">>},
            {<<"task", task>>, <<"subtask", ToString(subtask)>>},
            DefaultData, outcome)

generate(self, task, subtask, outcome) ==
    callApi(self, "GENERATE", EmptyDict,
            {<<"task", task>>, <<"subtask", ToString(subtask)>>},
            DefaultData, outcome)

(***************************************************************************)
(* Formatters                                                              *)
(*   a number v of the source is held as the integer v * Resolution        *)
(***************************************************************************)
\* round(): to the nearest integer, halves to the even one
round(value) ==
    LET q == value \div Resolution
        r == value % Resolution
    IN  IF 2 * r < Resolution THEN q
        ELSE IF 2 * r > Resolution THEN q + 1
        ELSE IF q % 2 = 0 THEN q ELSE q + 1

\* faulty variant: the second form is used up to 5
czechTime_fewUpToFive(value, first_form, second_form, third_form) ==
    LET v == round(value)
    IN  IF v = 0 THEN ""
        ELSE IF v = 1 THEN ToString(v) \o " " \o first_form
        ELSE IF v <= 5 THEN ToString(v) \o " " \o second_form
        ELSE ToString(v) \o " " \o third_form

czechTime(value, first_form, second_form, third_form) ==
    LET v == round(value)
    IN  IF v = 0 THEN ""
        ELSE IF v = 1 THEN ToString(v) \o " " \o first_form
        ELSE IF v < 5 THEN ToString(v) \o " " \o second_form
        ELSE ToString(v) \o " " \o third_form

formatTime(subtask, now) ==
    IF subtask.input_generated
    THEN IF subtask.input_valid_until.year = 9999
         THEN "stale"
         ELSE
           LET timedelta == subtask.input_valid_until.t - now
               days == timedelta \div (60 * 60 * 24 * Resolution)
               rest1 == timedelta % (60 * 60 * 24 * Resolution)
               hours == rest1 \div (60 * 60 * Resolution)
               rest2 == rest1 % (60 * 60 * Resolution)
               minutes == rest2 \div (60 * Resolution)
               seconds == rest2 % (60 * Resolution)
               day_str == czechTime(days * Resolution, "den", "dny", "dnu")
               hour_str == czechTime(hours * Resolution, "hodina", "hodiny", "hodin")
               minute_str == czechTime(minutes * Resolution, "minuta", "minuty", "minut")
               second_str == czechTime(seconds, "sekunda", "sekundy", "sekund")
               ret == SelectSeq(<<day_str, hour_str, minute_str, second_str>>,
                                LAMBDA x : x # "")
           IN  IF Len(ret) < 3
               THEN JoinWith(" a ", ret)
               ELSE JoinWith(", ", SubSeq(ret, 1, Len(ret) - 1))
                    \o " a " \o ret[Len(ret)]
    ELSE "Nevygenerovano"

printNiceJson(response) == <<"json: " \o response.text>>

printTableStatus(json_text, now) ==
    <<"Nazev ulohy", "Ziskane body", "Test | Delka platnosti | Body | Vysledek",
      "------------">>
    \o [i \in 1..Len(json_text) |->
          ToString(json_text[i].id) \o "| " \o formatTime(json_text[i], now)]

(***************************************************************************)
(* The solver subprocess                                                   *)
(***************************************************************************)
SolverOutcomes ==
    {[executable |-> FALSE, returncode |-> 127, stdout |-> ""]}
    \cup {[executable |-> TRUE, returncode |-> 0, stdout |-> o] : o \in SolverOutputs}
    \cup {[executable |-> TRUE, returncode |-> 1, stdout |-> o] : o \in SolverOutputs}

\* faulty variant: the return status of the solver is not looked at
check_output_unchecked(outcome) ==
    IF ~outcome.executable THEN [result |-> "raise", stdout |-> ""]
    ELSE [result |-> "return", stdout |-> outcome.stdout]

\* subprocess.check_output: raises when the program cannot be started or
\* returns a non-zero status, else returns what it wrote to standard output
check_output(outcome) ==
    IF ~outcome.executable THEN [result |-> "raise", stdout |-> ""]
    ELSE IF outcome.returncode # 0 THEN [result |-> "raise", stdout |-> ""]
    ELSE [result |-> "return", stdout |-> outcome.stdout]

(***************************************************************************)
(* Command line, as argparse hands it over                                 *)
(***************************************************************************)
Args(op, verbose, cviciste, api_url, task, subtask, file) ==
    [operation_name |-> op, verbose |-> verbose, cviciste |-> cviciste,
     api_url |-> api_url, task |-> task, subtask |-> subtask, file |-> file]

ArgumentSets ==
    UNION {
      {Args(op, v, c, a, None, 0, "") : op \in {None, "list"}}
      \cup {Args(op, v, c, a, t, 0, "") : op \in {"status", "run"}, t \in Tasks}
      \cup {Args("generate", v, c, a, t, n, "") : t \in Tasks, n \in 1..MaxSubtasks}
      \cup {Args("submit", v, c, a, t, n, f) :
               t \in Tasks, n \in 1..MaxSubtasks, f \in FileContents}
      : v \in BOOLEAN, c \in BOOLEAN, a \in ApiUrls}

TokenFiles ==
    {[state |-> "absent", line |-> <<>>], [state |-> "unreadable", line |-> <<>>]}
    \cup {[state |-> "readable", line |-> l] : l \in TokenLines}

\* operations: the handler of each subcommand
operations(operation_name) ==
    CASE operation_name = "list" -> "handleList"
      [] operation_name = "status" -> "handleStatus"
      [] operation_name = "submit" -> "handleSubmit"
      [] operation_name = "generate" -> "handleGenerate"
      [] operation_name = "run" -> "handleRun"

\* faulty variant: a missing subcommand falls through to a handler
dispatch_noHelp(operation_name) ==
    IF operation_name = None THEN "handleList"
    ELSE operations(operation_name)

dispatch(operation_name) ==
    IF operation_name = None THEN "print_help"
    ELSE operations(operation_name)

range(start, stop) ==
    [i \in 1..(IF stop > start THEN stop - start ELSE 0) |-> start + i - 1]

\* faulty variant: the loop counts from 0
runSubtasks_zeroBased(n) == range(0, n)

\* the subtask indices handleRun walks through
runSubtasks(n) == range(1, n + 1)

\* faulty variant: handleGenerate goes through KSPApiService.generate
handleGenerateCall_generate(self, args, outcome) ==
    generate(self, args.task, args.subtask, outcome)

\* the API call of handleGenerate
handleGenerateCall(self, args, outcome) ==
    getTest(self, args.task, args.subtask, TRUE, outcome)

(***************************************************************************)
(* State                                                                   *)
(***************************************************************************)
VARIABLES
    arguments,       \* the parsed command line
    tokenFile,       \* the credential file
    kspApiService,   \* the global client object
    pc,              \* where the program is
    exit,            \* "running", "0", "1" (sys.exit(1)) or "traceback"
    calls,           \* history: every callApi so far, with its request
    out,             \* lines printed so far
    log,             \* history: steps of the handlers, in order
    numberSubtasks,  \* locals of handleRun
    iter,
    input,
    output,
    ftSubtask,       \* argument and result of a formatTime call
    ftPc,
    ftResult

progvars == <<arguments, tokenFile, kspApiService, pc, exit, calls, out, log,
              numberSubtasks, iter, input, output>>

ftvars == <<ftSubtask, ftPc, ftResult>>

vars == <<arguments, tokenFile, kspApiService, pc, exit, calls, out, log,
          numberSubtasks, iter, input, output, ftSubtask, ftPc, ftResult>>

runlocals == <<numberSubtasks, iter, input, output>>

FtIdle ==
    /\ ftSubtask = SubtaskRec(0, FALSE, 2026, Now)
    /\ ftPc = "idle"
    /\ ftResult = None

Init ==
    /\ arguments \in ArgumentSets
    /\ tokenFile \in TokenFiles
    /\ kspApiService = NoService
    /\ pc = "construct"
    /\ exit = "running"
    /\ calls = <<>>
    /\ out = <<>>
    /\ log = <<>>
    /\ numberSubtasks = 0
    /\ iter = 0
    /\ input = ""
    /\ output = ""
    /\ FtIdle

\* what the environment did: the exchange reached the server and the server
\* answered 200; the solver started and returned 0
ApiOk(o) == ~o.conn_error /\ o.response.status_code = 200

SolverOk(so) == so.executable /\ so.returncode = 0

\* ok: the step did not fail
Step(name, subtask, ok) == [step |-> name, subtask |-> subtask, ok |-> ok]

Call(c, content, o) ==
    [request |-> c.request, conn_error |-> o.conn_error,
     response |-> c.response, result |-> c.result,
     printed |-> c.printed, content |-> content]

\* how the process ends when callApi does not return
failure(c) == IF c.result = "exit" THEN "1" ELSE "traceback"

(***************************************************************************)
(* Module top level                                                        *)
(***************************************************************************)
Construct ==
    /\ pc = "construct"
    /\ LET i == KSPApiService_init(arguments.api_url, arguments.cviciste,
                                   arguments.verbose, tokenFile)
       IN  /\ out' = out \o i.printed
           /\ kspApiService' = i.self
           /\ IF i.result = "return"
              THEN pc' = "dispatch" /\ exit' = exit
              ELSE pc' = "exited" /\ exit' = failure(i)
    /\ UNCHANGED <<arguments, tokenFile, calls, log, runlocals, ftvars>>

Dispatch ==
    /\ pc = "dispatch"
    /\ LET target == dispatch(arguments.operation_name)
       IN  IF target = "print_help"
           THEN /\ out' = Append(out, "help")
                /\ pc' = "exited"
                /\ exit' = "0"
           ELSE /\ out' = out
                /\ pc' = target
                /\ exit' = exit
    /\ UNCHANGED <<arguments, tokenFile, kspApiService, calls, log, runlocals,
                   ftvars>>

(***************************************************************************)
(* Handlers of list, status, submit and generate                           *)
(***************************************************************************)
\* one API call followed, when it returns, by printing lines(response);
\* needsJson: the handler reads response.json()
Single(c, o, stepname, subtask, content, needsJson, lines) ==
    /\ calls' = Append(calls, Call(c, content, o))
    /\ log' = Append(log, Step(stepname, subtask, ApiOk(o)))
    /\ pc' = "exited"
    /\ IF c.result # "return"
       THEN out' = out \o c.printed /\ exit' = failure(c)
       ELSE IF needsJson /\ ~c.response.valid
       THEN out' = out \o c.printed /\ exit' = "traceback"
       ELSE out' = out \o c.printed \o lines /\ exit' = "0"
    /\ UNCHANGED <<arguments, tokenFile, kspApiService, runlocals, ftvars>>

HandleList ==
    /\ pc = "handleList"
    /\ \E o \in Outcomes("LIST") :
         LET c == getList(kspApiService, o)
         IN  Single(c, o, "getList", 0, "", TRUE, printNiceJson(c.response))

HandleStatus ==
    /\ pc = "handleStatus"
    /\ \E o \in Outcomes("STATUS") :
         LET c == getStatus(kspApiService, arguments.task, o)
         IN  Single(c, o, "getStatus", 0, "", TRUE,
                    printTableStatus(c.response.subtasks, Now))

HandleSubmit ==
    /\ pc = "handleSubmit"
    /\ \E o \in Outcomes("SUBMIT") :
         LET user_output == arguments.file
             c == submit(kspApiService, arguments.task, arguments.subtask,
                         user_output, o)
         IN  Single(c, o, "submit", arguments.subtask, user_output, TRUE,
                    printNiceJson(c.response))

HandleGenerate ==
    /\ pc = "handleGenerate"
    /\ \E o \in Outcomes("GET_TEST") :
         LET c == handleGenerateCall(kspApiService, arguments, o)
         IN  Single(c, o, "getTest", arguments.subtask, "", FALSE,
                    <<c.response.text>>)

(***************************************************************************)
(* handleRun                                                               *)
(***************************************************************************)
\* the subtask of the current iteration of the loop
subtaskOf(n, i) == runSubtasks(n)[i]

Abort(c) ==
    /\ out' = out \o c.printed
    /\ pc' = "exited"
    /\ exit' = failure(c)

RunStatus ==
    /\ pc = "handleRun"
    /\ \E o \in Outcomes("STATUS") :
         LET c == getStatus(kspApiService, arguments.task, o)
             n == Len(c.response.subtasks)
         IN  /\ calls' = Append(calls, Call(c, "", o))
             /\ log' = Append(log, Step("getStatus", 0, ApiOk(o)))
             /\ IF c.result # "return"
                THEN Abort(c) /\ UNCHANGED <<numberSubtasks, iter>>
                ELSE IF ~c.response.valid
                THEN /\ out' = out \o c.printed
                     /\ pc' = "exited"
                     /\ exit' = "traceback"
                     /\ UNCHANGED <<numberSubtasks, iter>>
                ELSE /\ out' = out \o c.printed
                     /\ numberSubtasks' = n
                     /\ iter' = 1
                     /\ IF runSubtasks(n) = <<>>
                        THEN pc' = "exited" /\ exit' = "0"
                        ELSE pc' = "run_getTest" /\ exit' = exit
    /\ UNCHANGED <<arguments, tokenFile, kspApiService, input, output, ftvars>>

RunGetTest ==
    /\ pc = "run_getTest"
    /\ \E o \in Outcomes("GET_TEST") :
         LET subtask == subtaskOf(numberSubtasks, iter)
             c == getTest(kspApiService, arguments.task, subtask, TRUE, o)
         IN  /\ calls' = Append(calls, Call(c, "", o))
             /\ log' = Append(log, Step("getTest", subtask, ApiOk(o)))
             /\ IF c.result # "return"
                THEN Abort(c) /\ input' = input
                ELSE /\ out' = out \o c.printed
                     /\ input' = c.response.text
                     /\ pc' = "run_solver"
                     /\ exit' = exit
    /\ UNCHANGED <<arguments, tokenFile, kspApiService, numberSubtasks, iter,
                   output, ftvars>>

RunSolver ==
    /\ pc = "run_solver"
    /\ \E so \in SolverOutcomes :
         LET subtask == subtaskOf(numberSubtasks, iter)
             r == check_output(so)
         IN  /\ log' = Append(log, Step("solver", subtask, SolverOk(so)))
             /\ IF r.result # "return"
                THEN /\ pc' = "exited"
                     /\ exit' = "traceback"
                     /\ output' = output
                ELSE /\ pc' = "run_submit"
                     /\ exit' = exit
                     /\ output' = r.stdout
    /\ UNCHANGED <<arguments, tokenFile, kspApiService, calls, out,
                   numberSubtasks, iter, input, ftvars>>

RunSubmit ==
    /\ pc = "run_submit"
    /\ \E o \in Outcomes("SUBMIT") :
         LET subtask == subtaskOf(numberSubtasks, iter)
             c == submit(kspApiService, arguments.task, subtask, output, o)
         IN  /\ calls' = Append(calls, Call(c, output, o))
             /\ IF c.result # "return"
                THEN /\ Abort(c)
                     /\ log' = Append(log, Step("submit", subtask, ApiOk(o)))
                     /\ iter' = iter
                ELSE IF ~c.response.valid
                THEN /\ out' = out \o c.printed
                     /\ pc' = "exited"
                     /\ exit' = "traceback"
                     /\ log' = Append(log, Step("submit", subtask, ApiOk(o)))
                     /\ iter' = iter
                ELSE /\ out' = out \o c.printed
                            \o <<"Poduloha " \o ToString(subtask) \o ": "
                                 \o c.response.verdict>>
                     /\ log' = log \o <<Step("submit", subtask, ApiOk(o)),
                                        Step("verdict", subtask, TRUE)>>
                     /\ IF iter = Len(runSubtasks(numberSubtasks))
                        THEN pc' = "exited" /\ exit' = "0" /\ iter' = iter
                        ELSE pc' = "run_getTest" /\ exit' = exit
                             /\ iter' = iter + 1
    /\ UNCHANGED <<arguments, tokenFile, kspApiService, numberSubtasks, input,
                   output, ftvars>>

Next ==
    \/ Construct
    \/ Dispatch
    \/ HandleList
    \/ HandleStatus
    \/ HandleSubmit
    \/ HandleGenerate
    \/ RunStatus
    \/ RunGetTest
    \/ RunSolver
    \/ RunSubmit

Spec == Init /\ [][Next]_vars

(***************************************************************************)
(* formatTime on its own: one call on a subtask record                     *)
(***************************************************************************)
HourSamples == {0, 1, 2, 4, 5, 23}
MinuteSamples == {0, 1, 2, 4, 5, 59}
SecondSamples == {0, 1, 2, 4, 5, 30, 59}

\* remaining validity in ticks: not yet expired, and already expired
FutureOffsets ==
    {(((dd * 24 + hh) * 60 + mm) * 60 + ss) * Resolution + f :
        dd \in 0..MaxDays, hh \in HourSamples, mm \in MinuteSamples,
        ss \in SecondSamples, f \in 0..(Resolution - 1)}

PastOffsets == {0 - k : k \in 1..(MaxPast * Resolution)}

TimeSubtasks ==
    {SubtaskRec(1, FALSE, 2026, Now), SubtaskRec(1, TRUE, 9999, Now)}
    \cup {SubtaskRec(1, TRUE, 2026, Now + d) : d \in FutureOffsets \cup PastOffsets}

InitTime ==
    /\ arguments = Args(None, FALSE, FALSE, None, None, 0, "")
    /\ tokenFile = [state |-> "absent", line |-> <<>>]
    /\ kspApiService = NoService
    /\ pc = "idle"
    /\ exit = "running"
    /\ calls = <<>>
    /\ out = <<>>
    /\ log = <<>>
    /\ numberSubtasks = 0
    /\ iter = 0
    /\ input = ""
    /\ output = ""
    /\ ftSubtask \in TimeSubtasks
    /\ ftPc = "call"
    /\ ftResult = None

FormatTime ==
    /\ ftPc = "call"
    /\ ftResult' = formatTime(ftSubtask, Now)
    /\ ftPc' = "done"
    /\ UNCHANGED <<ftSubtask, progvars>>

NextTime == FormatTime

SpecTime == InitTime /\ [][NextTime]_vars

(***************************************************************************)
(* KSPApiService on its own: the five public methods called on one object  *)
(***************************************************************************)
InitApi ==
    /\ arguments \in {Args(None, v, c, a, None, 0, "") :
                         v \in BOOLEAN, c \in BOOLEAN, a \in ApiUrls}
    /\ tokenFile \in {f \in TokenFiles : f.state = "readable"}
    /\ kspApiService = KSPApiService_init(arguments.api_url, arguments.cviciste,
                                          arguments.verbose, tokenFile).self
    /\ pc = "api"
    /\ exit = "running"
    /\ calls = <<>>
    /\ out = <<>>
    /\ log = <<>>
    /\ numberSubtasks = 0
    /\ iter = 0
    /\ input = ""
    /\ output = ""
    /\ FtIdle

Method(c, o, content) ==
    /\ pc = "api"
    /\ Len(calls) < MaxCalls
    /\ calls' = Append(calls, Call(c, content, o))
    /\ out' = out \o c.printed
    /\ IF c.result = "return"
       THEN pc' = pc /\ exit' = exit
       ELSE pc' = "exited" /\ exit' = failure(c)
    /\ UNCHANGED <<arguments, tokenFile, kspApiService, log, runlocals, ftvars>>

ApiGetList ==
    \E o \in Outcomes("LIST") : Method(getList(kspApiService, o), o, "")

ApiGetStatus ==
    \E t \in Tasks, o \in Outcomes("STATUS") :
       Method(getStatus(kspApiService, t, o), o, "")

ApiGetTest ==
    \E t \in Tasks, n \in 1..MaxSubtasks, g \in BOOLEAN,
       o \in Outcomes("GET_TEST") :
       Method(getTest(kspApiService, t, n, g, o), o, "")

ApiSubmit ==
    \E t \in Tasks, n \in 1..MaxSubtasks, content \in FileContents,
       o \in Outcomes("SUBMIT") :
       Method(submit(kspApiService, t, n, content, o), o, content)

ApiGenerate ==
    \E t \in Tasks, n \in 1..MaxSubtasks, o \in Outcomes("GENERATE") :
       Method(generate(kspApiService, t, n, o), o, "")

NextApi ==
    \/ ApiGetList
    \/ ApiGetStatus
    \/ ApiGetTest
    \/ ApiSubmit
    \/ ApiGenerate

SpecApi == InitApi /\ [][NextApi]_vars

(***************************************************************************)
(* Properties                                                              *)
(***************************************************************************)
Terminated == exit # "running"

Failed == exit \in {"1", "traceback"}

IsPrefix(a, b) == Len(a) <= Len(b) /\ a = SubSeq(b, 1, Len(a))

Contains(seq, x) == \E i \in 1..Len(seq) : seq[i] = x

RECURSIVE ExpectedRunLog(_)
ExpectedRunLog(n) ==
    IF n = 0 THEN <<Step("getStatus", 0, TRUE)>>
    ELSE ExpectedRunLog(n - 1)
         \o <<Step("getTest", n, TRUE), Step("solver", n, TRUE),
              Step("submit", n, TRUE), Step("verdict", n, TRUE)>>

VerdictLine(i) == "Poduloha " \o ToString(i) \o ": OK"

VerdictLines == {VerdictLine(i) : i \in 0..(MaxSubtasks + 1)}

\* the number of subtasks the status response of `run` listed
Listed == Len(calls[1].response.subtasks)

\* C1: a `run` in which nothing fails and whose status response lists N
\* subtasks performs, after the one status call, getTest(i), solver(i),
\* submit(i) and the verdict line of i for i = 1..N in this order and
\* nothing else: N get-test requests, N submit requests, N verdict lines,
\* and at no moment a step for an index outside 1..N.
C1_RunVisitsEverySubtaskInOrder ==
    (arguments.operation_name = "run" /\ calls # <<>>
     /\ \A j \in 1..Len(log) : log[j].ok)
    => /\ calls[1].request.operation = "STATUS"
       /\ calls[1].result = "return" /\ calls[1].response.valid
              => IsPrefix(log, ExpectedRunLog(Listed))
       /\ \A j \in 1..Len(log) :
             log[j].step # "getStatus" => log[j].subtask \in 1..Listed
       /\ exit = "0"
          => /\ log = ExpectedRunLog(Listed)
             /\ Len(calls) = 1 + 2 * Listed
             /\ \A i \in 1..Listed :
                   /\ calls[2 * i].request.operation = "GET_TEST"
                   /\ <<"subtask", ToString(i)>> \in calls[2 * i].request.params
                   /\ calls[2 * i + 1].request.operation = "SUBMIT"
                   /\ <<"subtask", ToString(i)>> \in calls[2 * i + 1].request.params
             /\ SelectSeq(out, LAMBDA l : l \in VerdictLines)
                   = [i \in 1..Listed |-> VerdictLine(i)]

C1_Witness ==
    /\ arguments.operation_name = "run"
    /\ exit = "0"
    /\ numberSubtasks = 3
    /\ Len(calls) = 7
    /\ log[Len(log)] = Step("verdict", 3, TRUE)

\* C2: the request of every submit carries the content handed to submit as
\* its body, with a text content-type.
C2_SubmitUploadsContent ==
    \A i \in 1..Len(calls) :
       calls[i].request.operation = "SUBMIT"
       => /\ calls[i].request.data = calls[i].content
          /\ <<"Content-Type", "text/plain">> \in calls[i].request.headers

GenericError == "Stranka KSP odpovedela chybou, ktera nema json odpoved!"

\* a response is JSON when its content-type is application/json
IsJson(r) == r.content_type = "application/json"

\* C3: a response with a status other than 200 is never returned by callApi
\* and ends the process with a failure status; when it is JSON with
\* errorMsg X the client reports X, when it is not JSON the client reports
\* the generic message.  A response with status 200 is returned.
C3_Non200IsReportedAndFatal ==
    \A i \in 1..Len(calls) :
       LET c == calls[i]
           r == c.response
       IN  ~c.conn_error
           => /\ r.status_code = 200 => c.result = "return"
              /\ r.status_code # 200
                 => /\ c.result # "return"
                    /\ i = Len(calls) /\ Failed
                    /\ (IsJson(r) /\ r.valid)
                       => Contains(c.printed,
                             "Stranka KSP neprijala tvuj pozadavek: " \o r.errorMsg)
                    /\ ~IsJson(r) => Contains(c.printed, GenericError)

\* C8: for a non-200 response that is not JSON, a verbose client prints the
\* generic message, then the raw body, then leaves through sys.exit(1); a
\* client that is not verbose never prints the body.
C8_RawBodyOnlyWhenVerbose ==
    \A i \in 1..Len(calls) :
       LET c == calls[i]
           r == c.response
       IN  (~c.conn_error /\ r.status_code # 200 /\ r.content_type # NoHeader
            /\ ~IsJson(r))
           => IF kspApiService.verbose
              THEN /\ c.result = "exit"
                   /\ c.printed = <<"Posilam pozadavek na: " \o c.request.url,
                                    GenericError, r.text>>
              ELSE /\ c.result = "exit"
                   /\ ~Contains(c.printed, r.text)

(***************************************************************************)
(* What the interface description says of the five operations              *)
(***************************************************************************)
PathOf(operation) ==
    CASE operation = "LIST" -> "tasks/list"
      [] operation = "STATUS" -> "tasks/status"
      [] operation = "GET_TEST" -> "tasks/input"
      [] operation = "SUBMIT" -> "tasks/submit"
      [] operation = "GENERATE" -> "tasks/generate"

MethodOf(operation) ==
    CASE operation \in {"LIST", "STATUS"} -> "GET"
      [] operation \in {"GET_TEST", "SUBMIT", "GENERATE"} -> "POST"

ConfiguredBaseUrl ==
    IF arguments.api_url = None THEN "https://ksp.mff.cuni.cz/api/"
    ELSE arguments.api_url

\* the first line of the credential file without the surrounding blanks
LoadedToken ==
    LET l == tokenFile.line
        inner == {i \in 1..Len(l) :
                    /\ \E j \in 1..i : l[j] \notin Whitespace
                    /\ \E j \in i..Len(l) : l[j] \notin Whitespace}
    IN  JoinWith("", [k \in 1..Cardinality(inner) |->
                        l[CHOOSE i \in inner :
                            Cardinality({j \in inner : j < i}) = k - 1]])

\* C4: every request of each of the five operations goes to the configured
\* base URL followed by the operation's fixed path, with GET for list and
\* status and POST for the other three, and carries exactly one
\* Authorization header, Bearer <token loaded at startup>.
C4_MethodPathAndBearerToken ==
    \A i \in 1..Len(calls) :
       LET r == calls[i].request
       IN  /\ r.operation \in APIOperation
           /\ r.url = ConfiguredBaseUrl \o PathOf(r.operation)
           /\ r.method = MethodOf(r.operation)
           /\ {p \in r.headers : p[1] = "Authorization"}
                 = {<<"Authorization", "Bearer " \o LoadedToken>>}

C4_Witness ==
    /\ calls # <<>>
    /\ calls[1].request.operation = "SUBMIT"
    /\ calls[1].request.method = "POST"
    /\ <<"Content-Type", "text/plain">> \in calls[1].request.headers
    /\ <<"Authorization", "Bearer t k">> \in calls[1].request.headers
    /\ arguments.api_url # None

Handlers ==
    {"handleList", "handleStatus", "handleSubmit", "handleGenerate",
     "handleRun", "run_getTest", "run_solver", "run_submit"}

\* C5, as stated: with no subcommand the program, whatever the flags and the
\* credential file, prints the help, exits without error, enters no handler
\* and sends no request.
C5_NoSubcommandPrintsHelp ==
    arguments.operation_name = None
    => /\ pc \notin Handlers
       /\ calls = <<>> /\ log = <<>>
       /\ Terminated => out = <<"help">> /\ exit = "0"

\* C5, amended: with no subcommand the program enters no handler and sends
\* no request; when the credential file exists and can be read it prints the
\* help and exits without error; when the file is missing it prints the
\* missing-file message and exits with status 1 without printing the help,
\* and when the file cannot be read it ends in an uncaught exception.
C5_NoSubcommandHelpNeedsCredential ==
    arguments.operation_name = None
    => /\ pc \notin Handlers
       /\ calls = <<>> /\ log = <<>>
       /\ Terminated
          => CASE tokenFile.state = "readable" ->
                    out = <<"help">> /\ exit = "0"
               [] tokenFile.state = "absent" ->
                    /\ out = <<"Soubor ~/.config/ksp-api-token neexistuje">>
                    /\ exit = "1"
               [] tokenFile.state = "unreadable" ->
                    out = <<>> /\ exit = "traceback"

C5_Witness ==
    /\ arguments.operation_name = None
    /\ arguments.verbose /\ arguments.cviciste /\ arguments.api_url # None
    /\ tokenFile.state = "readable"
    /\ exit = "0"
    /\ out = <<"help">>

\* C6: in `run` a failed step (a status, get-test or submit call that meets
\* a connection failure or a non-200 response, a solver that cannot be run
\* or returns non-zero) is the last step: the program has ended with a
\* failure, no submit follows a failed solver, no verdict line is printed
\* for that subtask and nothing is done for a later subtask.
C6_NothingAfterAFailedStep ==
    arguments.operation_name = "run"
    => \A j \in 1..Len(log) :
          ~log[j].ok
          => /\ j = Len(log)
             /\ Failed /\ pc = "exited"
             /\ \A k \in 1..Len(log) : log[k].subtask <= log[j].subtask
             /\ ~Contains(log, Step("verdict", log[j].subtask, TRUE))
             /\ ~Contains(out, VerdictLine(log[j].subtask))
             /\ log[j].step = "solver"
                => /\ \A k \in 1..Len(log) :
                        ~(log[k].step = "submit" /\ log[k].subtask = log[j].subtask)
                   /\ \A i \in 1..Len(calls) :
                        ~(/\ calls[i].request.operation = "SUBMIT"
                          /\ <<"subtask", ToString(log[j].subtask)>>
                                \in calls[i].request.params)
             /\ Cardinality({i \in 1..Len(calls) : calls[i].result # "return"}) <= 1
             /\ \A i \in 1..Len(calls) :
                   calls[i].result # "return" => i = Len(calls)

C6_Witness ==
    /\ arguments.operation_name = "run"
    /\ log # <<>>
    /\ log[Len(log)] = Step("solver", 2, FALSE)
    /\ exit = "traceback"
    /\ Contains(out, VerdictLine(1))

\* C10: no subcommand issues the generate operation: no request ever goes to
\* tasks/generate, and `generate` sends exactly one request, a POST to
\* tasks/input with generate=true.
C10_GenerateEndpointNeverUsed ==
    /\ \A i \in 1..Len(calls) :
          /\ calls[i].request.operation # "GENERATE"
          /\ calls[i].request.url # ConfiguredBaseUrl \o "tasks/generate"
    /\ (arguments.operation_name = "generate" /\ Terminated
        /\ tokenFile.state = "readable")
       => /\ Len(calls) = 1
          /\ calls[1].request.method = "POST"
          /\ calls[1].request.url = ConfiguredBaseUrl \o "tasks/input"
          /\ calls[1].request.params
                = {<<"task", arguments.task>>,
                   <<"subtask", ToString(arguments.subtask)>>,
                   <<"generate", "true">>}

C10_Witness ==
    /\ arguments.operation_name = "generate"
    /\ exit = "0"
    /\ Len(calls) = 1
    /\ out # <<>> /\ out[Len(out)] = "input"

(***************************************************************************)
(* What the description says formatTime returns                            *)
(***************************************************************************)
\* the remaining validity of the formatted subtask, in ticks
Remaining == ftSubtask.input_valid_until.t - Now

Expiring ==
    /\ ftPc = "done"
    /\ ftSubtask.input_generated
    /\ ftSubtask.input_valid_until.year # 9999

WholeSeconds == Remaining % Resolution = 0

Form(value, forms) ==
    IF value = 1 THEN forms[1]
    ELSE IF value \in {2, 3, 4} THEN forms[2]
    ELSE forms[3]

Component(value, forms) == ToString(value) \o " " \o Form(value, forms)

\* d seconds as days, hours, minutes and seconds, zero components left out
Components(d) ==
    LET all == << <<d \div 86400, <<"den", "dny", "dnu">> >>,
                  <<(d \div 3600) % 24, <<"hodina", "hodiny", "hodin">> >>,
                  <<(d \div 60) % 60, <<"minuta", "minuty", "minut">> >>,
                  <<d % 60, <<"sekunda", "sekundy", "sekund">> >> >>
        nonzero == SelectSeq(all, LAMBDA c : c[1] # 0)
    IN  [i \in 1..Len(nonzero) |-> Component(nonzero[i][1], nonzero[i][2])]

Joined(parts) ==
    CASE Len(parts) = 0 -> ""
      [] Len(parts) = 1 -> parts[1]
      [] Len(parts) = 2 -> parts[1] \o " a " \o parts[2]
      [] Len(parts) = 3 ->
            parts[1] \o ", " \o parts[2] \o " a " \o parts[3]
      [] Len(parts) = 4 ->
            parts[1] \o ", " \o parts[2] \o ", " \o parts[3] \o " a " \o parts[4]

\* C7: for a generated input that expires a whole number d >= 0 of seconds
\* from now, formatTime returns the non-zero ones of days, hours, minutes
\* and seconds of d in this order, each as "<value> <form>" with the
\* singular for 1, the "few" form for 2, 3, 4 and the plural from 5 on, one
\* or two of them joined by " a ", more by ", " with " a " before the last;
\* d = 90 gives "1 minuta a 30 sekund".
C7_FormatTimeOfWholeSeconds ==
    (Expiring /\ WholeSeconds /\ Remaining >= 0)
    => /\ ftResult = Joined(Components(Remaining \div Resolution))
       /\ Remaining = 90 * Resolution => ftResult = "1 minuta a 30 sekund"

C7_Witness ==
    /\ Expiring
    /\ Remaining = (2 * 86400 + 5 * 3600 + 1 * 60 + 4) * Resolution
    /\ ftResult = "2 dny, 5 hodin, 1 minuta a 4 sekundy"

\* C9: for a generated input whose expiry lies a whole number of seconds in
\* the past, formatTime takes the remaining validity as zero: it returns
\* what it returns for 0 seconds, and shows no negative component.
C9_PastExpiryIsZero ==
    (Expiring /\ WholeSeconds /\ Remaining < 0)
    => ftResult = formatTime(SubtaskRec(1, TRUE, 2026, Now), Now)

====
